---- MODULE Spec2Model ----
(***************************************************************************)
(* ByteSet: a set of 8-bit values stored in one 256-bit unsigned integer.  *)
(* The u256 is modelled as the set of its one-bits (bit i set <=> i is in  *)
(* the set of indices), so that all 256 bits and the carry/borrow chain of *)
(* its arithmetic are kept at full width.                                  *)
(***************************************************************************)
EXTENDS Integers, Sequences, FiniteSets, TLC

\* Width of the underlying integer (ethnum::u256) and the largest u8.
BITS == 256
U8_MAX == 255

\* Number of distinct byte values the sets and arguments are drawn from:
\* the lowest ones and the highest ones of 0..=255.
NVals == 3

Pool == (0 .. ((NVals + 1) \div 2) - 1) \cup ((U8_MAX - (NVals \div 2) + 1) .. U8_MAX)

Bytes == 0 .. U8_MAX

\* Number of in-place operator assignments (&=, |=, ^=, -=) applied in a row.
MaxAssign == 1

VARIABLES
    set,        \* self.0 of the ByteSet under test
    other,      \* other.0 of the right-hand operand
    build,      \* "debug" (overflow checks on) or "release" (wrapping)
    panicked,   \* TRUE once a panic has unwound the caller
    res,        \* record of the last call: its name, operands, result
    nassign,    \* number of in-place operator assignments made so far
    iter,       \* the element iterator (IterImpl: range, set)
    front,      \* the values next() has returned, in order
    back,       \* the values next_back() has returned, in order
    ended,      \* TRUE once next() or next_back() has returned None
    pairs,      \* the pair iterator (PairsImpl) and its calls so far
    retain,     \* retain(f), while it runs and until the next call: its
                \* iterator, the set it started from and the calls of f
    arr,        \* a [bool; 256]
    conv        \* the conversions applied so far and what they started from

vars == <<set, other, build, panicked, res, nassign, iter, front, back, ended,
          pairs, retain, arr, conv>>

algVars == <<other, build, nassign>>
iterVars == <<iter, front, back, ended>>
convVars == <<arr, conv>>

Builds == {"debug", "release"}

----------------------------------------------------------------------------
(* u256 primitives (ethnum), on the set-of-one-bits representation.        *)

u256_ZERO == {}
u256_ONE == {0}
u256_MAX == 0 .. (BITS - 1)

shl(x, n) == {i + n : i \in x} \cap u256_MAX
bitand(a, b) == a \cap b
bitor(a, b) == a \cup b
bitxor(a, b) == (a \ b) \cup (b \ a)
not(a) == u256_MAX \ a
count_ones(a) == Cardinality(a)

\* number of zero bits below the lowest one-bit; BITS for zero
trailing_zeros(x) ==
    IF x = u256_ZERO THEN BITS
    ELSE CHOOSE n \in 0 .. (BITS - 1) :
            n \in x /\ \A m \in 0 .. (n - 1) : m \notin x

\* number of zero bits above the highest one-bit; BITS for zero
leading_zeros(x) ==
    IF x = u256_ZERO THEN BITS
    ELSE CHOOSE n \in 0 .. (BITS - 1) :
            (BITS - 1 - n) \in x /\ \A m \in 0 .. (n - 1) : (BITS - 1 - m) \notin x

\* The subtraction is carried out lane by lane, LaneBits bits at a time,
\* the borrow passing from each lane to the next.
LaneBits == BITS \div 16

\* bits i .. stop-1 of a - b, given the borrow into bit i, and the borrow out
RECURSIVE sub_ripple(_, _, _, _, _)
sub_ripple(a, b, i, stop, borrow) ==
    IF i = stop THEN [val |-> {}, overflow |-> borrow]
    ELSE LET ai == i \in a
             bi == i \in b
             d == (ai # bi) # borrow
             bo == (~ai /\ bi) \/ ((ai = bi) /\ borrow)
             rest == IF bo THEN sub_ripple(a, b, i + 1, stop, TRUE)
                     ELSE sub_ripple(a, b, i + 1, stop, FALSE)
         IN [val |-> (IF d THEN {i} ELSE {}) \cup rest.val,
             overflow |-> rest.overflow]

RECURSIVE sub_lanes(_, _, _, _)
sub_lanes(a, b, i, borrow) ==
    IF i = BITS THEN [val |-> {}, overflow |-> borrow]
    ELSE LET r == sub_ripple(a, b, i, i + LaneBits, borrow)
             rest == IF r.overflow THEN sub_lanes(a, b, i + LaneBits, TRUE)
                     ELSE sub_lanes(a, b, i + LaneBits, FALSE)
         IN [val |-> r.val \cup rest.val, overflow |-> rest.overflow]

\* a - b modulo 2^256, with the borrow out of bit 255
overflowing_sub(a, b) == sub_lanes(a, b, 0, FALSE)

\* Sub for u256: arithmetic subtraction; an overflow panics where overflow
\* checks are compiled in and wraps where they are not.
u256_sub(a, b, bld) ==
    LET r == overflowing_sub(a, b)
    IN [val |-> r.val, panic |-> r.overflow /\ bld = "debug"]

----------------------------------------------------------------------------
(* Option<u8>                                                              *)

None == [some |-> FALSE, val |-> 0]
Some(v) == [some |-> TRUE, val |-> v]

----------------------------------------------------------------------------
(* ByteSet core (lib.rs)                                                   *)

mask(val) == shl(u256_ONE, val)

new == u256_ZERO
full == u256_MAX

len(s) == count_ones(s)

min_unreachable(s) == trailing_zeros(s) \notin 0 .. BITS
min(s) ==
    LET n == trailing_zeros(s)
    IN IF n \in 0 .. 255 THEN Some(n) ELSE None

max_unreachable(s) == leading_zeros(s) \notin 0 .. BITS

\* max without the reversal of the leading-zero count
max_unreversed(s) ==
    LET n == leading_zeros(s)
    IN IF n \in 0 .. 255 THEN Some(n % 256) ELSE None

max(s) ==
    LET n == leading_zeros(s)
    IN IF n \in 0 .. 255 THEN Some(255 - (n % 256)) ELSE None

is_empty(s) == s = u256_ZERO

contains(s, val) == bitand(s, mask(val)) # u256_ZERO

is_disjoint(a, b) == bitand(a, b) = u256_ZERO
is_subset(a, b) == bitand(a, b) = a
is_superset(a, b) == is_subset(b, a)


\* insert as its doc comment words it: "whether the value was already present"
insert_already_present(s, val) ==
    LET prev == s
        now == bitor(s, mask(val))
    IN [set |-> now, ret |-> prev = now]

\* Each mutator gives the new self.0 and the value returned.
insert(s, val) ==
    LET prev == s
        now == bitor(s, mask(val))
    IN [set |-> now, ret |-> prev # now]

remove(s, val) ==
    LET prev == s
        now == bitand(s, not(mask(val)))
    IN [set |-> now, ret |-> prev # now]

toggle(s, val) ==
    LET m == mask(val)
        now == bitxor(s, m)
    IN [set |-> now, ret |-> bitand(m, now) = u256_ZERO]

take(s, val) ==
    LET r == remove(s, val)
    IN [set |-> r.set, ret |-> IF r.ret THEN Some(val) ELSE None]

----------------------------------------------------------------------------
(* Operators (ops.rs): each is the u256 operator of the same trait applied *)
(* to the two wrapped integers.                                            *)

bitand_op(a, b) == [val |-> bitand(a, b), panic |-> FALSE]
bitor_op(a, b) == [val |-> bitor(a, b), panic |-> FALSE]
bitxor_op(a, b) == [val |-> bitxor(a, b), panic |-> FALSE]
sub_op(a, b, bld) == u256_sub(a, b, bld)
not_op(a) == [val |-> not(a), panic |-> FALSE]

\* Named algebra (lib.rs): each calls the infix operator on references.
difference(a, b, bld) == sub_op(a, b, bld)

\* symmetric difference written with `|` instead of `^`
symmetric_difference_as_or(a, b) == bitor_op(a, b)

symmetric_difference(a, b) == bitxor_op(a, b)
intersection(a, b) == bitand_op(a, b)
union(a, b) == bitor_op(a, b)

----------------------------------------------------------------------------
(* core::ops::RangeInclusive<u8>: start, end and the exhausted flag that   *)
(* lets an inclusive range end at 255 without overflowing.                 *)

RangeInclusive(lo, hi) == [start |-> lo, end |-> hi, exhausted |-> FALSE]

range_is_empty(r) == r.exhausted \/ r.start > r.end

range_next(r) ==
    IF range_is_empty(r) THEN [range |-> r, item |-> None]
    ELSE IF r.start < r.end
         THEN [range |-> [r EXCEPT !.start = r.start + 1], item |-> Some(r.start)]
         ELSE [range |-> [r EXCEPT !.exhausted = TRUE], item |-> Some(r.start)]

range_next_back(r) ==
    IF range_is_empty(r) THEN [range |-> r, item |-> None]
    ELSE IF r.start < r.end
         THEN [range |-> [r EXCEPT !.end = r.end - 1], item |-> Some(r.end)]
         ELSE [range |-> [r EXCEPT !.exhausted = TRUE], item |-> Some(r.end)]

range_len(r) == IF range_is_empty(r) THEN 0 ELSE r.end - r.start + 1

----------------------------------------------------------------------------
(* Element iterator (iter.rs, IterImpl)                                    *)

\* ByteSet::range: the span from the smallest to the largest member, or an
\* empty range for the empty set.
range(s) ==
    LET lo == min(s)
        hi == max(s)
    IN IF lo.some /\ hi.some THEN RangeInclusive(lo.val, hi.val)
       ELSE RangeInclusive(1, 0)

IterImpl_new(s) == [range |-> range(s), set |-> s]

\* One turn of the `while let` loop of next / next_back: st.done is set when
\* the loop has returned, st.item is what it returned.
Scanning(it) == [it |-> it, done |-> FALSE, item |-> None]


\* a turn of next() that returns the range's value without asking contains
next_turn_unfiltered(st) ==
    LET r == range_next(st.it.range)
        it2 == [st.it EXCEPT !.range = r.range]
    IN IF ~r.item.some THEN [it |-> it2, done |-> TRUE, item |-> None]
       ELSE [it |-> it2, done |-> TRUE, item |-> Some(r.item.val)]

next_turn(st) ==
    LET r == range_next(st.it.range)
        it2 == [st.it EXCEPT !.range = r.range]
    IN IF ~r.item.some THEN [it |-> it2, done |-> TRUE, item |-> None]
       ELSE IF contains(st.it.set, r.item.val)
            THEN [it |-> it2, done |-> TRUE, item |-> Some(r.item.val)]
            ELSE [it |-> it2, done |-> FALSE, item |-> None]

next_back_turn(st) ==
    LET r == range_next_back(st.it.range)
        it2 == [st.it EXCEPT !.range = r.range]
    IN IF ~r.item.some THEN [it |-> it2, done |-> TRUE, item |-> None]
       ELSE IF contains(st.it.set, r.item.val)
            THEN [it |-> it2, done |-> TRUE, item |-> Some(r.item.val)]
            ELSE [it |-> it2, done |-> FALSE, item |-> None]

\* The loops are unrolled LaneBits turns at a time.
RECURSIVE next_turns(_, _)
next_turns(st, k) ==
    IF k = 0 \/ st.done THEN st ELSE next_turns(next_turn(st), k - 1)

RECURSIVE next_loop(_)
next_loop(st) == IF st.done THEN st ELSE next_loop(next_turns(st, LaneBits))

RECURSIVE next_back_turns(_, _)
next_back_turns(st, k) ==
    IF k = 0 \/ st.done THEN st ELSE next_back_turns(next_back_turn(st), k - 1)

RECURSIVE next_back_loop(_)
next_back_loop(st) ==
    IF st.done THEN st ELSE next_back_loop(next_back_turns(st, LaneBits))

\* IterImpl::next and IterImpl::next_back: the iterator afterwards and the
\* item returned.
IterImpl_next(it) ==
    LET st == next_loop(Scanning(it))
    IN [it |-> st.it, item |-> st.item]

IterImpl_next_back(it) ==
    LET st == next_back_loop(Scanning(it))
    IN [it |-> st.it, item |-> st.item]

----------------------------------------------------------------------------
(* Pair iterator (iter.rs, PairsImpl)                                      *)


\* the pair range written half-open: u8::MIN..u8::MAX
PairsImpl_new_half_open(s) == [range |-> RangeInclusive(0, U8_MAX - 1), set |-> s]

PairsImpl_new(s) == [range |-> RangeInclusive(0, U8_MAX), set |-> s]

\* next / next_back: `?` returns None when the range gives None.
PairsImpl_next(p) ==
    LET r == range_next(p.range)
    IN [it |-> [p EXCEPT !.range = r.range],
        some |-> r.item.some,
        item |-> IF r.item.some
                 THEN <<r.item.val, contains(p.set, r.item.val)>>
                 ELSE <<0, FALSE>>]

PairsImpl_next_back(p) ==
    LET r == range_next_back(p.range)
    IN [it |-> [p EXCEPT !.range = r.range],
        some |-> r.item.some,
        item |-> IF r.item.some
                 THEN <<r.item.val, contains(p.set, r.item.val)>>
                 ELSE <<0, FALSE>>]

PairsImpl_len(p) == range_len(p.range)

----------------------------------------------------------------------------
(* Conversions to and from [bool; 256] (lib.rs)                            *)

AllFalse == [i \in Bytes |-> FALSE]

\* From<&[bool; 256]> for ByteSet: `for i in 0u8..=255`, one turn per i.
from_array_turn(vals, st) ==
    LET r == range_next(st.range)
    IN IF ~r.item.some THEN [range |-> r.range, set |-> st.set, done |-> TRUE]
       ELSE [range |-> r.range,
             set |-> IF vals[r.item.val] THEN insert(st.set, r.item.val).set
                     ELSE st.set,
             done |-> FALSE]

RECURSIVE from_array_turns(_, _, _)
from_array_turns(vals, st, k) ==
    IF k = 0 \/ st.done THEN st
    ELSE from_array_turns(vals, from_array_turn(vals, st), k - 1)

RECURSIVE from_array_loop(_, _)
from_array_loop(vals, st) ==
    IF st.done THEN st ELSE from_array_loop(vals, from_array_turns(vals, st, LaneBits))


\* the array loop written half-open: `for i in 0u8..255`
from_array_half_open(vals) ==
    from_array_loop(vals, [range |-> RangeInclusive(0, U8_MAX - 1), set |-> new,
                           done |-> FALSE]).set

from_array(vals) ==
    from_array_loop(vals, [range |-> RangeInclusive(0, U8_MAX), set |-> new,
                           done |-> FALSE]).set

\* From<&ByteSet> for [bool; 256]: `for val in set`, one turn per next().
into_array_turn(st) ==
    LET r == IterImpl_next(st.it)
    IN IF ~r.item.some THEN [it |-> r.it, arr |-> st.arr, done |-> TRUE]
       ELSE [it |-> r.it, arr |-> [st.arr EXCEPT ![r.item.val] = TRUE],
             done |-> FALSE]

RECURSIVE into_array_turns(_, _)
into_array_turns(st, k) ==
    IF k = 0 \/ st.done THEN st ELSE into_array_turns(into_array_turn(st), k - 1)

RECURSIVE into_array_loop(_)
into_array_loop(st) ==
    IF st.done THEN st ELSE into_array_loop(into_array_turns(st, LaneBits))

into_array(s) ==
    into_array_loop([it |-> IterImpl_new(s), arr |-> AllFalse, done |-> FALSE]).arr

----------------------------------------------------------------------------
(* Record of a call: op its name, pre the receiver before the call, rhs    *)
(* the other operand, arg the byte argument, ret the value returned, val   *)
(* the set produced, panic whether the call panicked.                      *)

Call(op, pre, rhs, arg, ret, val, panic) ==
    [op |-> op, pre |-> pre, rhs |-> rhs, arg |-> arg, ret |-> ret,
     val |-> val, panic |-> panic]

NoCall == Call("none", {}, {}, 0, FALSE, {}, FALSE)

\* The sets the operands are drawn from: every set over the pool, and the
\* full set.
Family == (SUBSET Pool) \cup {full}

\* The sets the pair iterator is built over: the empty set, the one-member
\* sets, the whole pool and the full set.
PairFamily == {s \in Family : len(s) <= 1 \/ s = Pool \/ s = full}

\* The parts of the state a behaviour does not use stay as they start.
NoAlgebra == other = new /\ build = "debug" /\ nassign = 0
NoIter == iter = IterImpl_new(new) /\ front = <<>> /\ back = <<>> /\ ended = FALSE
NoPairs ==
    pairs = [it |-> PairsImpl_new(new), nfront |-> 0, nback |-> 0,
             last |-> [end |-> "none", some |-> FALSE, item |-> <<0, FALSE>>,
                       len |-> BITS]]
RetainIdle == [pc |-> "idle", it |-> IterImpl_new(new), calls |-> <<>>, snap |-> new]
NoRetain == retain = RetainIdle
NoConv == arr = <<>> /\ conv = [first |-> "none", steps |-> 0, set0 |-> new, arr0 |-> <<>>]

----------------------------------------------------------------------------
(* Set algebra: named methods, infix operators, in-place operators.        *)

\* A non-mutating call on (set, other) with outcome r.
Binary(op, r) ==
    /\ ~panicked
    /\ res' = Call(op, set, other, 0, FALSE, r.val, r.panic)
    /\ panicked' = r.panic
    /\ UNCHANGED <<set, algVars, iterVars, pairs, retain, convVars>>

\* An in-place call: self.0 is assigned unless the operator panicked.
Assign(op, r) ==
    /\ ~panicked
    /\ nassign < MaxAssign
    /\ res' = Call(op, set, other, 0, FALSE, r.val, r.panic)
    /\ panicked' = r.panic
    /\ set' = IF r.panic THEN set ELSE r.val
    /\ nassign' = nassign + 1
    /\ UNCHANGED <<other, build, iterVars, pairs, retain, convVars>>

Difference == Binary("difference", difference(set, other, build))
SymmetricDifference == Binary("symmetric_difference", symmetric_difference(set, other))
Intersection == Binary("intersection", intersection(set, other))
Union == Binary("union", union(set, other))
Sub == Binary("sub", sub_op(set, other, build))
Not == Binary("not", not_op(set))
BitAndAssign == Assign("bitand_assign", bitand_op(set, other))
BitOrAssign == Assign("bitor_assign", bitor_op(set, other))
BitXorAssign == Assign("bitxor_assign", bitxor_op(set, other))
SubAssign == Assign("sub_assign", sub_op(set, other, build))

InitAlg ==
    /\ set \in Family
    /\ other \in Family
    /\ build \in Builds
    /\ panicked = FALSE
    /\ res = NoCall
    /\ nassign = 0
    /\ NoIter /\ NoPairs /\ NoRetain /\ NoConv

NextAlg ==
    \/ Difference
    \/ SymmetricDifference
    \/ Intersection
    \/ Union
    \/ Sub
    \/ Not
    \/ BitAndAssign
    \/ BitOrAssign
    \/ BitXorAssign
    \/ SubAssign

SpecAlg == InitAlg /\ [][NextAlg]_vars

----------------------------------------------------------------------------
(* Queries and mutation (lib.rs).  No call is made while retain holds the  *)
(* mutable borrow of the set.                                              *)

Callable == ~panicked /\ retain.pc # "loop"

\* A call with byte argument v whose outcome r gives the new set and the
\* value returned.
Mutate(op, v, r) ==
    /\ Callable
    /\ set' = r.set
    /\ res' = Call(op, set, new, v, r.ret, r.set, FALSE)
    /\ retain' = RetainIdle
    /\ UNCHANGED <<panicked, algVars, iterVars, pairs, convVars>>

Insert(v) == Mutate("insert", v, insert(set, v))
Remove(v) == Mutate("remove", v, remove(set, v))
Toggle(v) == Mutate("toggle", v, toggle(set, v))
Take(v) == Mutate("take", v, take(set, v))

Clear ==
    /\ Callable
    /\ set' = u256_ZERO
    /\ res' = Call("clear", set, new, 0, FALSE, u256_ZERO, FALSE)
    /\ retain' = RetainIdle
    /\ UNCHANGED <<panicked, algVars, iterVars, pairs, convVars>>

Min ==
    /\ Callable
    /\ res' = Call("min", set, new, 0, min(set), set, min_unreachable(set))
    /\ panicked' = min_unreachable(set)
    /\ retain' = RetainIdle
    /\ UNCHANGED <<set, algVars, iterVars, pairs, convVars>>

Max ==
    /\ Callable
    /\ res' = Call("max", set, new, 0, max(set), set, max_unreachable(set))
    /\ panicked' = max_unreachable(set)
    /\ retain' = RetainIdle
    /\ UNCHANGED <<set, algVars, iterVars, pairs, convVars>>

\* retain(f): `for val in self.clone()` starts by building the iterator
\* over a copy of the set.
RetainBegin ==
    /\ Callable
    /\ retain' = [pc |-> "loop", it |-> IterImpl_new(set), calls |-> <<>>,
                  snap |-> set]
    /\ res' = Call("retain", set, new, 0, FALSE, set, FALSE)
    /\ UNCHANGED <<set, panicked, algVars, iterVars, pairs, convVars>>


\* the loop body with the test of f(val) inverted
retain_turn_inverted(s, val, keep) == IF keep THEN remove(s, val).set ELSE s

\* What one turn of the loop does to the set, given what f(val) returned.
retain_turn(s, val, keep) == IF ~keep THEN remove(s, val).set ELSE s

\* One turn of the loop: the iterator's next(), then f(val), whose result
\* is any boolean for a value of the pool (true for the others), then
\* remove(val) if it was false.  The loop ends when next() gives None.
RetainTurn ==
    /\ retain.pc = "loop"
    /\ LET r == IterImpl_next(retain.it)
       IN IF ~r.item.some
          THEN /\ retain' = [retain EXCEPT !.pc = "done", !.it = r.it]
               /\ res' = Call("retain", retain.snap, new, 0, FALSE, set, FALSE)
               /\ UNCHANGED set
          ELSE \E keep \in (IF r.item.val \in Pool THEN BOOLEAN ELSE {TRUE}) :
               /\ retain' = [retain EXCEPT !.it = r.it,
                                !.calls = Append(retain.calls, <<r.item.val, keep>>)]
               /\ set' = retain_turn(set, r.item.val, keep)
               /\ UNCHANGED res
    /\ UNCHANGED <<panicked, algVars, iterVars, pairs, convVars>>

InitMut ==
    /\ set \in {new, full}
    /\ panicked = FALSE
    /\ res = NoCall
    /\ NoAlgebra /\ NoIter /\ NoPairs /\ NoRetain /\ NoConv

NextMut ==
    \/ \E v \in Pool : Insert(v)
    \/ \E v \in Pool : Remove(v)
    \/ \E v \in Pool : Toggle(v)
    \/ \E v \in Pool : Take(v)
    \/ Clear
    \/ Min
    \/ Max
    \/ RetainBegin
    \/ RetainTurn

SpecMut == InitMut /\ [][NextMut]_vars

----------------------------------------------------------------------------
(* Element iteration: iter() / into_iter(), then any interleaving of       *)
(* next() and next_back().                                                 *)

IterNext ==
    /\ LET r == IterImpl_next(iter)
       IN /\ iter' = r.it
          /\ front' = IF r.item.some THEN Append(front, r.item.val) ELSE front
          /\ ended' = (ended \/ ~r.item.some)
    /\ UNCHANGED <<set, back, res, panicked, algVars, pairs, retain, convVars>>

IterNextBack ==
    /\ LET r == IterImpl_next_back(iter)
       IN /\ iter' = r.it
          /\ back' = IF r.item.some THEN Append(back, r.item.val) ELSE back
          /\ ended' = (ended \/ ~r.item.some)
    /\ UNCHANGED <<set, front, res, panicked, algVars, pairs, retain, convVars>>

InitIter ==
    /\ set \in Family
    /\ iter = IterImpl_new(set)
    /\ front = <<>> /\ back = <<>> /\ ended = FALSE
    /\ panicked = FALSE
    /\ res = NoCall
    /\ NoAlgebra /\ NoPairs /\ NoRetain /\ NoConv

NextIter == IterNext \/ IterNextBack

SpecIter == InitIter /\ [][NextIter]_vars

----------------------------------------------------------------------------
(* Pair iteration: pairs() / into_pairs(), then any interleaving of next() *)
(* and next_back(); len() is read after every call.                        *)

PairsNext ==
    /\ LET r == PairsImpl_next(pairs.it)
       IN pairs' = [it |-> r.it,
                    nfront |-> IF r.some THEN pairs.nfront + 1 ELSE pairs.nfront,
                    nback |-> pairs.nback,
                    last |-> [end |-> "front", some |-> r.some, item |-> r.item,
                              len |-> PairsImpl_len(r.it)]]
    /\ UNCHANGED <<set, res, panicked, algVars, iterVars, retain, convVars>>

PairsNextBack ==
    /\ LET r == PairsImpl_next_back(pairs.it)
       IN pairs' = [it |-> r.it,
                    nfront |-> pairs.nfront,
                    nback |-> IF r.some THEN pairs.nback + 1 ELSE pairs.nback,
                    last |-> [end |-> "back", some |-> r.some, item |-> r.item,
                              len |-> PairsImpl_len(r.it)]]
    /\ UNCHANGED <<set, res, panicked, algVars, iterVars, retain, convVars>>

InitPairs ==
    /\ set \in PairFamily
    /\ pairs = [it |-> PairsImpl_new(set), nfront |-> 0, nback |-> 0,
                last |-> [end |-> "none", some |-> FALSE, item |-> <<0, FALSE>>,
                          len |-> PairsImpl_len(PairsImpl_new(set))]]
    /\ panicked = FALSE
    /\ res = NoCall
    /\ NoAlgebra /\ NoIter /\ NoRetain /\ NoConv

NextPairs == PairsNext \/ PairsNextBack

SpecPairs == InitPairs /\ [][NextPairs]_vars

----------------------------------------------------------------------------
(* Conversions: a set or an array is converted, and the result converted   *)
(* back.                                                                   *)

Arrays == {[i \in Bytes |-> i \in s] : s \in Family}

IntoArray ==
    /\ \/ conv.first = "set" /\ conv.steps = 0
       \/ conv.first = "array" /\ conv.steps = 1
    /\ arr' = into_array(set)
    /\ conv' = [conv EXCEPT !.steps = conv.steps + 1]
    /\ res' = Call("into_array", set, new, 0, FALSE, set, FALSE)
    /\ UNCHANGED <<set, panicked, algVars, iterVars, pairs, retain>>

FromArray ==
    /\ \/ conv.first = "array" /\ conv.steps = 0
       \/ conv.first = "set" /\ conv.steps = 1
    /\ set' = from_array(arr)
    /\ conv' = [conv EXCEPT !.steps = conv.steps + 1]
    /\ res' = Call("from_array", set, new, 0, FALSE, from_array(arr), FALSE)
    /\ UNCHANGED <<arr, panicked, algVars, iterVars, pairs, retain>>

InitConv ==
    /\ set \in Family
    /\ arr \in Arrays
    /\ \E f \in {"set", "array"} :
          conv = [first |-> f, steps |-> 0, set0 |-> set, arr0 |-> arr]
    /\ panicked = FALSE
    /\ res = NoCall
    /\ NoAlgebra /\ NoIter /\ NoPairs /\ NoRetain

NextConv == IntoArray \/ FromArray

SpecConv == InitConv /\ [][NextConv]_vars

----------------------------------------------------------------------------
(* Properties                                                              *)

\* The values a sequence holds.
Values(q) == {q[i] : i \in 1 .. Len(q)}

Ascending(q) == \A i \in 1 .. (Len(q) - 1) : q[i] < q[i + 1]
Descending(q) == \A i \in 1 .. (Len(q) - 1) : q[i] > q[i + 1]

\* C1: difference, the infix `-` and the in-place `-=` give exactly the
\* values that are in the left operand and not in the right one (A AND NOT
\* B), whether or not B is a subset of A.
C1_DifferenceIsAndNot ==
    (res.op \in {"difference", "sub", "sub_assign"} /\ ~res.panic)
        => res.val = res.pre \ res.rhs

\* C2: toggle(v) flips the membership of v and returns the membership of v
\* after the call: true if v is now present, false if it is now absent.
C2_ToggleReturnsNewMembership ==
    res.op = "toggle"
        => /\ contains(res.val, res.arg) = ~contains(res.pre, res.arg)
           /\ res.ret = contains(res.val, res.arg)

\* C3: no call of any operation, on any sets and any byte, panics.
C3_NoPanic == ~panicked

C5_ElementIterator ==
    /\ Ascending(front)
    /\ Descending(back)
    /\ \A v \in Values(front) \cup Values(back) : contains(set, v)
    /\ Cardinality(Values(front) \cup Values(back)) = Len(front) + Len(back)
    /\ ended => /\ Len(front) + Len(back) = len(set)
                /\ Values(front) \cup Values(back) = {v \in Bytes : contains(set, v)}

\* both ends consumed over a set with absent values between its members
C5_Witness ==
    /\ set = {0, 1, 255}
    /\ front = <<0>> /\ back = <<255, 1>>
    /\ ended

\* C6: under any interleaving of next() and next_back() on the pair
\* iterator, next() returns (x, contains(x)) for the smallest x of 0..=255
\* not yet returned, next_back() the same for the largest, 256 pairs are
\* returned in all whatever the set holds, and len() is always 256 minus
\* the number of pairs returned so far.
C6_PairIterator ==
    /\ (pairs.last.end = "front" /\ pairs.last.some)
        => pairs.last.item = <<pairs.nfront - 1, contains(set, pairs.nfront - 1)>>
    /\ (pairs.last.end = "back" /\ pairs.last.some)
        => pairs.last.item = <<U8_MAX - (pairs.nback - 1),
                               contains(set, U8_MAX - (pairs.nback - 1))>>
    /\ pairs.nfront + pairs.nback <= BITS
    /\ (pairs.last.end # "none" /\ ~pairs.last.some)
        => pairs.nfront + pairs.nback = BITS
    /\ PairsImpl_len(pairs.it) = BITS - (pairs.nfront + pairs.nback)
    /\ pairs.last.len = BITS - (pairs.nfront + pairs.nback)

\* the iterator run dry from both ends over a set with members and gaps
C6_Witness ==
    /\ set = {255}
    /\ pairs.nfront = 255 /\ pairs.nback = 1
    /\ pairs.last.end = "front" /\ ~pairs.last.some

\* C7: symmetric_difference(A, B) equals the library's own difference
\* applied to union(A, B) and intersection(A, B).
C7_SymmetricDifference ==
    res.op = "symmetric_difference"
        => LET d == difference(union(res.pre, res.rhs).val,
                               intersection(res.pre, res.rhs).val, build)
           IN ~d.panic /\ d.val = res.val

\* operands that overlap, neither inside the other
C7_Witness ==
    /\ res.op = "symmetric_difference"
    /\ res.pre \cap res.rhs # {}
    /\ res.pre \ res.rhs # {}
    /\ res.rhs \ res.pre # {}

\* C8: a set converted to [bool; 256] and back is the same set, an array
\* converted to a set and back is the same array, and index i of the array
\* is the membership of value i.
C8_ArrayRoundTrip ==
    /\ (conv.first = "set" /\ conv.steps >= 1)
        => \A i \in Bytes : arr[i] = contains(conv.set0, i)
    /\ (conv.first = "set" /\ conv.steps = 2) => set = conv.set0
    /\ (conv.first = "array" /\ conv.steps >= 1)
        => \A i \in Bytes : contains(set, i) = conv.arr0[i]
    /\ (conv.first = "array" /\ conv.steps = 2) => arr = conv.arr0

\* an array holding indices 0 and 255 taken to a set and back
C8_Witness ==
    /\ conv.first = "array" /\ conv.steps = 2
    /\ conv.arr0[0] /\ conv.arr0[255] /\ ~conv.arr0[1]
    /\ set = {0, 255}

\* C9: in every state the mutations reach, min() is None iff the set has
\* no member (iff is_empty(), iff len() = 0) and otherwise the smallest
\* member; max() is None iff the set has no member and otherwise the
\* largest member.
C9_MinMax ==
    LET members == {v \in Bytes : contains(set, v)}
        lo == min(set)
        hi == max(set)
    IN /\ ~min_unreachable(set) /\ ~max_unreachable(set)
       /\ lo.some = (members # {})
       /\ hi.some = (members # {})
       /\ is_empty(set) = (members = {})
       /\ (len(set) = 0) = (members = {})
       /\ lo.some => (lo.val \in members /\ \A v \in members : lo.val <= v)
       /\ hi.some => (hi.val \in members /\ \A v \in members : hi.val >= v)

\* max() called on the set whose only member is 0
C9_Witness == res.op = "max" /\ res.pre = {0} /\ res.ret = Some(0)

\* C10: retain(f) calls f once on each value that was a member when retain
\* was called, in ascending order, and on no other value, whatever is
\* removed on the way; afterwards the set is exactly the members f
\* returned true for.
C10_RetainSnapshot ==
    LET n == Len(retain.calls)
        called == [i \in 1 .. n |-> retain.calls[i][1]]
        visited == Values(called)
        rejected == {retain.calls[i][1] : i \in {j \in 1 .. n : ~retain.calls[j][2]}}
        accepted == {retain.calls[i][1] : i \in {j \in 1 .. n : retain.calls[j][2]}}
    IN retain.pc \in {"loop", "done"}
        => /\ Ascending(called)
           /\ Cardinality(visited) = n
           /\ visited \subseteq retain.snap
           /\ n > 0 => {v \in retain.snap : v <= called[n]} \subseteq visited
           /\ set = retain.snap \ rejected
           /\ retain.pc = "done" => (visited = retain.snap /\ set = accepted)

\* a finished pass that removed the smallest and the largest member
C10_Witness ==
    /\ retain.pc = "done"
    /\ retain.snap = {0, 1, 255}
    /\ retain.calls = <<<<0, FALSE>>, <<1, TRUE>>, <<255, FALSE>>>>
    /\ set = {1}

====
